---- MODULE Spec2Model ----
(***************************************************************************)
(* SuperZork conversation engine: the terminal controller                  *)
(* (src/superzork.py, SuperZorkGame) and the GUI controller                *)
(* (src/superzork_gui.py, SuperZorkGUI).                                   *)
(*                                                                         *)
(* Text is a sequence of tokens.  The token " " is a whitespace character; *)
(* every other token is an unbroken run of letters.  Concatenation is \o,  *)
(* str.strip() drops the blank tokens at both ends, str.lower() maps every *)
(* token to its lower-case form and str.split() cuts at runs of blanks.    *)
(***************************************************************************)
EXTENDS Integers, Sequences, FiniteSets, TLC

(***************************************************************************)
(* Bounds of the model.                                                    *)
(***************************************************************************)
\* Ordinary input is accepted while the Conversation has fewer Turns.
MaxTurns == 6
\* Context windows the pruning harness tries: 0 .. MaxCtx.
MaxCtx == 5
\* Conversations the pruning harness tries have at most this many Turns.
MaxLen == 5
\* A small context window, so that the Budgeter prunes within MaxTurns.
SmallNumCtx == 7
\* display_messages entries the model keeps: the controller reads only the
\* last entry and tests the list for emptiness, and undo pops at most one
\* entry between two appends.
DisplayWindow == 2
\* Responses the stream harness tries have at most this many lines.
MaxLines == 3
\* Conversations the stream_llm_chat harness tries have at most this many
\* Turns.
MaxChatLen == 3

(***************************************************************************)
(* Program constants.                                                      *)
(***************************************************************************)
\* config.get('num_tokens', 4096)
DefaultNumCtx == 4096
\* len(self.messages) > 3: the pruning floor
PruneFloor == 3

(***************************************************************************)
(* Text.                                                                   *)
(***************************************************************************)
EmptyText == << >>

Lower(t) ==
    CASE t = "UNDO" -> "undo"
      [] t = "A" -> "a"
      [] OTHER -> t

lower(s) == [i \in 1..Len(s) |-> Lower(s[i])]

RECURSIVE lstrip(_)
lstrip(s) == IF s # << >> /\ Head(s) = " " THEN lstrip(Tail(s)) ELSE s

RECURSIVE rstrip(_)
rstrip(s) ==
    IF s # << >> /\ s[Len(s)] = " " THEN rstrip(SubSeq(s, 1, Len(s) - 1)) ELSE s

strip(s) == rstrip(lstrip(s))

\* len(content.split()): the number of maximal runs of non-blank tokens
WordCount(s) ==
    Cardinality({i \in 1..Len(s) : s[i] # " " /\ (i = 1 \/ s[i - 1] = " ")})

\* truthiness of a str
Truthy(s) == s # EmptyText

(***************************************************************************)
(* Turns and the Conversation.                                             *)
(***************************************************************************)
Message(r, c) == [role |-> r, content |-> c]

RECURSIVE SumWords(_)
SumWords(msgs) ==
    IF msgs = << >> THEN 0
    ELSE WordCount(Head(msgs).content) + SumWords(Tail(msgs))

\* pop(index + 1) for pop(index): the Turn after the oldest one goes.
pop_next(msgs, index) ==
    SubSeq(msgs, 1, index + 1) \o SubSeq(msgs, index + 3, Len(msgs))

\* list.pop(index), index counted from 0
pop(msgs, index) ==
    SubSeq(msgs, 1, index) \o SubSeq(msgs, index + 2, Len(msgs))

\* current_total > num_ctx * 0.8, in integers
OverBudget(total, n) == 5 * total > 4 * n

RECURSIVE TruncateLoop(_, _, _, _)
TruncateLoop(msgs, current_total, n, index) ==
    IF OverBudget(current_total, n) /\ Len(msgs) > PruneFloor
    THEN IF index < Len(msgs) - 1
         THEN TruncateLoop(pop(msgs, index),
                           current_total - WordCount(msgs[index + 1].content),
                           n, index)
         ELSE msgs
    ELSE msgs

\* The pruning with index = 0: it evicts the system Turn first.
truncate_messages_from_zero(msgs, n) ==
    IF Len(msgs) < 2 THEN msgs ELSE TruncateLoop(msgs, SumWords(msgs), n, 0)

\* The pruning with `if` for `while`: it evicts one Turn at most.
truncate_messages_once(msgs, n) ==
    IF Len(msgs) < 2 THEN msgs
    ELSE IF OverBudget(SumWords(msgs), n) /\ Len(msgs) > PruneFloor
         THEN pop(msgs, 1)
         ELSE msgs

\* The pruning with pop() for pop(index): it evicts the newest Turn.
RECURSIVE TruncateLoopLast(_, _, _)
TruncateLoopLast(msgs, current_total, n) ==
    IF OverBudget(current_total, n) /\ Len(msgs) > PruneFloor
    THEN TruncateLoopLast(pop(msgs, Len(msgs) - 1),
                          current_total - WordCount(msgs[Len(msgs)].content),
                          n)
    ELSE msgs

truncate_messages_pop_last(msgs, n) ==
    IF Len(msgs) < 2 THEN msgs ELSE TruncateLoopLast(msgs, SumWords(msgs), n)

truncate_messages(msgs, n) ==
    IF Len(msgs) < 2 THEN msgs ELSE TruncateLoop(msgs, SumWords(msgs), n, 1)

(***************************************************************************)
(* The backend's answer to one request: the lines of the response body and *)
(* how the transport ends once they are read.                              *)
(***************************************************************************)
JsonLine(c, d) == [kind |-> "json", content |-> c, done |-> d]
\* a line json.loads rejects (JSONDecodeError)
MalformedLine == [kind |-> "malformed", content |-> EmptyText, done |-> FALSE]
\* a keep-alive line: `if line:` is false
BlankLine == [kind |-> "blank", content |-> EmptyText, done |-> FALSE]
\* valid JSON of another shape (a number, a list, message: null): the
\* membership test raises TypeError, which no handler of the generator catches
BadShapeLine == [kind |-> "badshape", content |-> EmptyText, done |-> FALSE]

Response(ls, e) == [lines |-> ls, end |-> e]

FallbackTimeout == <<"spirits", " ", "slow">>
FallbackConnection == <<"connection", " ", "severed">>
FallbackRequest == <<"oracle", " ", "error">>

Fallback(e) ==
    CASE e = "Timeout" -> FallbackTimeout
      [] e = "ConnectionError" -> FallbackConnection
      [] OTHER -> FallbackRequest

Responses ==
    { Response(<<JsonLine(<<"The">>, FALSE)>>, "close"),
      Response(<<JsonLine(EmptyText, TRUE)>>, "close"),
      Response(<<BlankLine, JsonLine(<<"The">>, FALSE), MalformedLine,
                 JsonLine(<<" ", "door">>, TRUE), JsonLine(<<"late">>, FALSE)>>,
               "close"),
      Response(<<JsonLine(<<"The">>, FALSE)>>, "Timeout"),
      Response(<< >>, "ConnectionError"),
      Response(<< >>, "RequestException"),
      Response(<<JsonLine(<<"The">>, FALSE), BadShapeLine>>, "close") }

(***************************************************************************)
(* The generator stream_llm_chat returns.  st is "none" (no generator),    *)
(* "created" (not yet started: the body runs from the first next()),       *)
(* "running" (the request is sent, no line read yet), "suspended" (at      *)
(* `yield content`) or "fallback" (at a fallback yield).                   *)
(***************************************************************************)
Generator(s, m, ls, e, b) ==
    [st |-> s, message |-> m, lines |-> ls, end |-> e, brk |-> b]

NoGenerator == Generator("none", EmptyText, << >>, "close", FALSE)

Outcome(o, t, g) == [out |-> o, token |-> t, gen |-> g]

StopIteration == Outcome("stop", EmptyText, NoGenerator)
Raised == Outcome("raise", EmptyText, NoGenerator)

\* The line loop with `break` for `continue` in the JSONDecodeError handler:
\* a malformed line ends the stream.
RECURSIVE ReadLinesBreakAtMalformed(_, _, _)
ReadLinesBreakAtMalformed(m, lines, end) ==
    IF lines = << >>
    THEN IF end = "close"
         THEN StopIteration
         ELSE Outcome("yield", Fallback(end),
                      Generator("fallback", m, << >>, end, FALSE))
    ELSE LET line == Head(lines)
             rest == Tail(lines)
         IN  CASE line.kind = "blank" -> ReadLinesBreakAtMalformed(m, rest, end)
               [] line.kind = "malformed" -> StopIteration
               [] line.kind = "badshape" -> Raised
               [] OTHER ->
                    IF Truthy(line.content)
                    THEN Outcome("yield", line.content,
                                 Generator("suspended", m, rest, end, line.done))
                    ELSE IF line.done THEN StopIteration
                    ELSE ReadLinesBreakAtMalformed(m, rest, end)

\* for line in response.iter_lines(): ... up to the next yield, the end of
\* the loop or an exception
RECURSIVE ReadLines(_, _, _)
ReadLines(m, lines, end) ==
    IF lines = << >>
    THEN IF end = "close"
         THEN StopIteration
         ELSE Outcome("yield", Fallback(end),
                      Generator("fallback", m, << >>, end, FALSE))
    ELSE LET line == Head(lines)
             rest == Tail(lines)
         IN  CASE line.kind = "blank" -> ReadLines(m, rest, end)
               [] line.kind = "malformed" -> ReadLines(m, rest, end)
               [] line.kind = "badshape" -> Raised
               [] OTHER ->
                    IF Truthy(line.content)
                    THEN Outcome("yield", line.content,
                                 Generator("suspended", m, rest, end, line.done))
                    ELSE IF line.done THEN StopIteration
                    ELSE ReadLines(m, rest, end)

\* A generator that returns right after its first `yield content`.
ResumeReturns(g) ==
    IF g.st = "running" THEN ReadLines(g.message, g.lines, g.end)
    ELSE StopIteration

\* A generator without the `break` after a line that says done.
ResumeIgnoresDone(g) ==
    IF g.st = "fallback"
    THEN StopIteration
    ELSE ReadLines(g.message, g.lines, g.end)

\* next() of a generator that has started
Resume(g) ==
    IF g.st = "fallback" \/ g.brk
    THEN StopIteration
    ELSE ReadLines(g.message, g.lines, g.end)

(***************************************************************************)
(* Configuration and what the player may type.                             *)
(***************************************************************************)
\* load_system_prompt(): the system instruction text
SystemPrompt == <<"You", " ", "narrate">>
\* build_story_system_prompt(): the synthesized first message (never blank)
FirstMessage == <<"Initialize", " ", "adventure">>

NumCtxValues == {SmallNumCtx, DefaultNumCtx}

\* lines typed at the prompt (terminal) or into the input area (GUI)
Inputs ==
    { <<" ", "go", " ", "north">>, <<"UNDO", " ">>, <<"debug">>, <<"help">>,
      <<"quit">>, <<" ">> }

\* lines typed at the terminal's (story update)> prompt
Edits == { <<" ">>, <<"A", " ", "troll">>, <<"quit">> }

\* The quit keyword spelt `exit`.
QUIT_exit == <<"exit">>

QUIT == <<"quit">>
UNDO == <<"undo">>
DEBUG == <<"debug">>
HELP == <<"help">>

VARIABLES
    frontend,          \* "terminal" (SuperZorkGame) or "gui" (SuperZorkGUI)
    num_ctx,           \* the configured context window
    messages,          \* self.messages: the Conversation
    pc,                \* run(): "start", "loop", "streaming", "stopped";
                       \* the pruning harness: "call", "while", "return"; the
                       \* stream_llm_chat harness: "chat", "chatting",
                       \* "exhausted", "raised"
    stop_reason,       \* why run() left its loop: "none", "quit",
                       \* "interrupt", "error"
    user_input,        \* the line last entered (terminal: input().strip();
                       \* GUI: input_text when RETURN is pressed)
    updated_story,     \* terminal: the line last read at (story update)>
    response_text,     \* terminal: the buffer of the session
    text_generator,    \* the generator of the session
    payload,           \* payload["messages"] of the last request sent
    display_messages,  \* GUI: the last DisplayWindow display messages
    is_story_update,   \* GUI
    is_ai_typing,      \* GUI
    pruned_from,       \* harnesses: the Conversation handed in
    current_total,     \* truncate_messages while it runs: its running total
    reference,         \* equivalence harness: the script, and what the
                       \* terminal made of it
    response,          \* the backend's answer to the last request sent
    emitted            \* the fragments the generator has yielded so far

vars ==
    << frontend, num_ctx, messages, pc, stop_reason, user_input,
       updated_story, response_text, text_generator, payload,
       display_messages, is_story_update, is_ai_typing, pruned_from,
                    current_total, reference,
       response, emitted >>

NoPayload == << >>
NoResponse == Response(<< >>, "none")

\* equivalence harness: a script (the line the player enters after the first
\* session, the text for a story update prompt, the backend's answers to
\* the first and to the second request) and the terminal's outcome
Reference(r, e, f, s, t, m, p) ==
    [raw |-> r, edit |-> e, first |-> f, second |-> s, terminal_ran |-> t,
     messages |-> m, payload |-> p]

NoReference ==
    Reference(EmptyText, EmptyText, NoResponse, NoResponse, FALSE, << >>,
              << >>)

Init ==
    /\ frontend \in {"terminal", "gui"}
    /\ num_ctx \in NumCtxValues
    /\ messages = << >>
    /\ pc = "start"
    /\ stop_reason = "none"
    /\ user_input = EmptyText
    /\ updated_story = EmptyText
    /\ response_text = EmptyText
    /\ text_generator = NoGenerator
    /\ payload = NoPayload
    /\ display_messages = << >>
    /\ is_story_update = FALSE
    /\ is_ai_typing = FALSE
    /\ pruned_from = << >>
    /\ current_total = 0
    /\ reference = NoReference
    /\ response = NoResponse
    /\ emitted = << >>

\* list.append on the display list, keeping the last DisplayWindow entries
DisplayAppend(d, m) ==
    LET x == Append(d, m)
    IN  IF Len(x) > DisplayWindow THEN Tail(x) ELSE x

DropLast(q) == SubSeq(q, 1, Len(q) - 1)

\* The append without its `if message.strip():` guard.
WithUserTurnAlways(msgs, m) == Append(msgs, Message("user", m))

\* stream_llm_chat, up to the request: self.messages after the append
WithUserTurn(msgs, m) ==
    IF Truthy(strip(m)) THEN Append(msgs, Message("user", m)) ELSE msgs

(***************************************************************************)
(* The states of the controller (spec section 4.4).                        *)
(***************************************************************************)
AwaitingModel ==
    \/ frontend = "terminal" /\ pc = "streaming"
    \/ frontend = "gui" /\ pc = "loop" /\ is_ai_typing

StoryEditMode == frontend = "gui" /\ pc = "loop" /\ is_story_update
                     /\ ~is_ai_typing

Idle == pc = "loop" /\ ~is_ai_typing /\ ~is_story_update

Stopped == pc = "stopped"

(***************************************************************************)
(* Terminal: SuperZorkGame.run                                             *)
(***************************************************************************)
\* lines 259-271: the system Turn, then the first session up to its request
TerminalStartFrom(responses) ==
    /\ frontend = "terminal" /\ pc = "start"
    /\ \E resp \in responses :
         LET sent == WithUserTurn(<<Message("system", SystemPrompt)>>,
                                  FirstMessage)
         IN  /\ messages' = sent
             /\ payload' = sent
             /\ response' = resp
             /\ text_generator' =
                    Generator("running", FirstMessage, resp.lines, resp.end,
                              FALSE)
    /\ response_text' = EmptyText
    /\ emitted' = << >>
    /\ pc' = "streaming"
    /\ UNCHANGED << frontend, num_ctx, stop_reason, user_input, updated_story,
                    display_messages, is_story_update, is_ai_typing,
                    pruned_from, current_total, reference >>

TerminalStart == TerminalStartFrom(Responses)

\* handle_special_commands, command == "undo": self.messages afterwards
UndoTerminal(msgs, edit) ==
    IF Len(msgs) > 1 /\ msgs[Len(msgs)].role = "assistant"
    THEN IF Truthy(strip(edit))
         THEN Append(DropLast(msgs), Message("assistant", edit))
         ELSE DropLast(msgs)
    ELSE msgs

\* whether handle_special_commands reads a line at (story update)>
AsksEdit(msgs, line) ==
    /\ lower(strip(line)) = UNDO
    /\ Len(msgs) > 1 /\ msgs[Len(msgs)].role = "assistant"

\* handle_special_commands: self.messages afterwards
AfterCommandTerminal(msgs, line, edit) ==
    IF lower(strip(line)) = UNDO THEN UndoTerminal(msgs, edit) ELSE msgs

\* lines 287-301: one pass of the loop, up to the request of the session
TerminalInput(raw, edit) ==
    /\ frontend = "terminal" /\ pc = "loop"
    /\ Len(messages) < MaxTurns
    /\ LET line == strip(raw)
           command == lower(strip(line))
       IN  /\ user_input' = line
           /\ IF ~Truthy(line)
              THEN /\ edit = <<" ">>
                   /\ UNCHANGED << messages, pc, stop_reason, updated_story,
                                   response_text, text_generator, payload,
                                   response, emitted >>
              ELSE IF command = QUIT
              THEN /\ edit = <<" ">>
                   /\ pc' = "stopped"
                   /\ stop_reason' = "quit"
                   /\ UNCHANGED << messages, updated_story, response_text,
                                   text_generator, payload, response,
                                   emitted >>
              ELSE /\ IF AsksEdit(messages, line)
                      THEN updated_story' = edit
                      ELSE edit = <<" ">> /\ UNCHANGED updated_story
                   /\ \E resp \in Responses :
                        LET handled == AfterCommandTerminal(messages, line, edit)
                            pruned == truncate_messages(handled, num_ctx)
                            sent == WithUserTurn(pruned, line)
                        IN  /\ messages' = sent
                            /\ payload' = sent
                            /\ response' = resp
                            /\ text_generator' =
                                   Generator("running", line, resp.lines,
                                             resp.end, FALSE)
                   /\ response_text' = EmptyText
                   /\ emitted' = << >>
                   /\ pc' = "streaming"
                   /\ UNCHANGED stop_reason
    /\ UNCHANGED << frontend, num_ctx, display_messages, is_story_update,
                    is_ai_typing, pruned_from, current_total, reference >>

\* lines 271-280 and 301-310: one turn of `for token in ...`, and the code
\* after the loop once the generator is exhausted
TerminalPull ==
    /\ frontend = "terminal" /\ pc = "streaming"
    /\ LET r == Resume(text_generator)
       IN  CASE r.out = "yield" ->
                  /\ response_text' = response_text \o r.token
                  /\ emitted' = Append(emitted, r.token)
                  /\ text_generator' = r.gen
                  /\ UNCHANGED << messages, pc, stop_reason >>
             [] r.out = "stop" ->
                  /\ messages' =
                         IF Truthy(response_text)
                         THEN Append(messages,
                                     Message("assistant", response_text))
                         ELSE messages
                  /\ text_generator' = NoGenerator
                  /\ pc' = "loop"
                  /\ UNCHANGED << response_text, stop_reason, emitted >>
             [] OTHER ->
                  \* line 321: except Exception
                  /\ text_generator' = NoGenerator
                  /\ pc' = "stopped"
                  /\ stop_reason' = "error"
                  /\ UNCHANGED << messages, response_text, emitted >>
    /\ UNCHANGED << frontend, num_ctx, user_input, updated_story, payload,
                    display_messages, is_story_update, is_ai_typing,
                    pruned_from, current_total, reference, response >>

\* lines 314-319: KeyboardInterrupt or EOFError inside the loop
TerminalInterrupt ==
    /\ frontend = "terminal" /\ pc \in {"loop", "streaming"}
    /\ pc' = "stopped"
    /\ stop_reason' = "interrupt"
    /\ UNCHANGED << frontend, num_ctx, messages, user_input, updated_story,
                    response_text, text_generator, payload, display_messages,
                    is_story_update, is_ai_typing, pruned_from,
                    current_total, reference, response,
                    emitted >>

\* line 213 raising KeyboardInterrupt or EOFError: the undo has popped the
\* last Turn and the loop ends
TerminalInterruptEdit(raw) ==
    /\ frontend = "terminal" /\ pc = "loop"
    /\ Len(messages) < MaxTurns
    /\ AsksEdit(messages, strip(raw))
    /\ user_input' = strip(raw)
    /\ messages' = DropLast(messages)
    /\ pc' = "stopped"
    /\ stop_reason' = "interrupt"
    /\ UNCHANGED << frontend, num_ctx, updated_story, response_text,
                    text_generator, payload, display_messages,
                    is_story_update, is_ai_typing, pruned_from,
                    current_total, reference, response,
                    emitted >>

(***************************************************************************)
(* GUI: SuperZorkGUI.run, process_input, update_ai_response                *)
(***************************************************************************)
\* run() without line 502: the first session starts on an empty Conversation.
GuiStartWithoutSystem ==
    /\ frontend = "gui" /\ pc = "start"
    /\ messages' = << >>
    /\ text_generator' =
           Generator("created", FirstMessage, << >>, "close", FALSE)
    /\ display_messages' = <<Message("assistant", EmptyText)>>
    /\ is_ai_typing' = TRUE
    /\ emitted' = << >>
    /\ pc' = "loop"
    /\ UNCHANGED << frontend, num_ctx, stop_reason, user_input, updated_story,
                    response_text, payload, is_story_update, pruned_from,
                    current_total, reference,
                    response >>

\* lines 499-508: the system Turn; the generator is created, not started
GuiStart ==
    /\ frontend = "gui" /\ pc = "start"
    /\ messages' = <<Message("system", SystemPrompt)>>
    /\ text_generator' =
           Generator("created", FirstMessage, << >>, "close", FALSE)
    /\ display_messages' = <<Message("assistant", EmptyText)>>
    /\ is_ai_typing' = TRUE
    /\ emitted' = << >>
    /\ pc' = "loop"
    /\ UNCHANGED << frontend, num_ctx, stop_reason, user_input, updated_story,
                    response_text, payload, is_story_update, pruned_from,
                    current_total, reference,
                    response >>

UpdatedStoryPrefix == <<"(Updated", " ", "Story):", " ">>

\* Normal input that starts the session without raising is_ai_typing.
GuiNormalInputNotTyping(text) ==
    /\ messages' = truncate_messages(messages, num_ctx)
    /\ text_generator' = Generator("created", text, << >>, "close", FALSE)
    /\ display_messages' =
           DisplayAppend(DisplayAppend(display_messages,
                                       Message("user", text)),
                         Message("assistant", EmptyText))
    /\ emitted' = << >>
    /\ UNCHANGED << pc, stop_reason, is_ai_typing >>

\* process_input, lines 437-455: normal input processing
GuiNormalInput(text) ==
    /\ messages' = truncate_messages(messages, num_ctx)
    /\ text_generator' = Generator("created", text, << >>, "close", FALSE)
    /\ display_messages' =
           DisplayAppend(DisplayAppend(display_messages,
                                       Message("user", text)),
                         Message("assistant", EmptyText))
    /\ is_ai_typing' = TRUE
    /\ emitted' = << >>
    /\ UNCHANGED << pc, stop_reason >>

\* process_input, lines 423-435: story update mode
GuiStoryUpdate(text) ==
    /\ messages' = Append(messages, Message("assistant", text))
    /\ display_messages' =
           DisplayAppend(display_messages,
                         Message("assistant", UpdatedStoryPrefix \o text))
    /\ is_story_update' = FALSE
    /\ UNCHANGED << pc, stop_reason, text_generator, is_ai_typing, emitted >>

\* whether the event loop hands key presses on (line 517)
AcceptsKeysAlways == TRUE

AcceptsKeys == ~is_ai_typing

\* lines 517-522: RETURN pressed with a non-blank input_text while the AI
\* is not typing, and process_input(text)
GuiKeyReturn(text) ==
    /\ frontend = "gui" /\ pc = "loop" /\ AcceptsKeys
    /\ Truthy(strip(text))
    /\ Len(messages) < MaxTurns
    /\ user_input' = text
    /\ LET command == lower(strip(text))
       IN  CASE command = QUIT ->
                  /\ pc' = "stopped"
                  /\ stop_reason' = "quit"
                  /\ UNCHANGED << messages, text_generator, display_messages,
                                  is_story_update, is_ai_typing, emitted >>
             [] command = UNDO /\ is_story_update ->
                  UNCHANGED << messages, pc, stop_reason, text_generator,
                               display_messages, is_story_update,
                               is_ai_typing, emitted >>
             [] command = UNDO /\ ~is_story_update
                  /\ Len(messages) > 1
                  /\ messages[Len(messages)].role = "assistant" ->
                  /\ messages' = DropLast(messages)
                  /\ display_messages' =
                         IF display_messages # << >>
                            /\ display_messages[Len(display_messages)].role
                                   = "assistant"
                         THEN DropLast(display_messages)
                         ELSE display_messages
                  /\ is_story_update' = TRUE
                  /\ UNCHANGED << pc, stop_reason, text_generator,
                                  is_ai_typing, emitted >>
             [] command = UNDO /\ ~is_story_update
                  /\ ~(Len(messages) > 1
                       /\ messages[Len(messages)].role = "assistant") ->
                  \* line 414, then the code after the chain
                  /\ is_story_update' = FALSE
                  /\ GuiNormalInput(text)
             [] command = DEBUG ->
                  UNCHANGED << messages, pc, stop_reason, text_generator,
                               display_messages, is_story_update,
                               is_ai_typing, emitted >>
             [] OTHER ->
                  IF is_story_update
                  THEN GuiStoryUpdate(text)
                  ELSE GuiNormalInput(text) /\ UNCHANGED is_story_update
    /\ UNCHANGED << frontend, num_ctx, updated_story, response_text, payload,
                    pruned_from, current_total, reference, response >>

\* lines 517-519: RETURN pressed with a blank input_text while the AI is not
\* typing: `if self.input_text.strip():` is false and nothing is done
GuiKeyReturnBlank(text) ==
    /\ frontend = "gui" /\ pc = "loop" /\ AcceptsKeys
    /\ ~Truthy(strip(text))
    /\ user_input' = text
    /\ UNCHANGED << frontend, num_ctx, messages, pc, stop_reason, updated_story,
                    response_text, text_generator, payload, display_messages,
                    is_story_update, is_ai_typing, pruned_from,
                    current_total, reference, response,
                    emitted >>

\* update_ai_response once the timer allows it: one next() on the generator
GuiTickFrom(responses) ==
    /\ frontend = "gui" /\ pc = "loop"
    /\ text_generator.st # "none"
    /\ \E resp \in IF text_generator.st = "created"
                   THEN responses ELSE {response} :
         /\ LET starting == text_generator.st = "created"
                sent == IF starting
                        THEN WithUserTurn(messages, text_generator.message)
                        ELSE messages
                r == IF starting
                     THEN ReadLines(text_generator.message, resp.lines,
                                    resp.end)
                     ELSE Resume(text_generator)
            IN  /\ payload' = IF starting THEN sent ELSE payload
                /\ response' = resp
                /\ CASE r.out = "yield" ->
                          /\ messages' = sent
                          /\ display_messages' =
                                 IF display_messages # << >>
                                 THEN [display_messages EXCEPT
                                         ![Len(display_messages)].content =
                                             @ \o r.token]
                                 ELSE display_messages
                          /\ text_generator' = r.gen
                          /\ emitted' = Append(emitted, r.token)
                          /\ UNCHANGED << pc, stop_reason, is_ai_typing >>
                     [] r.out = "stop" ->
                          /\ text_generator' = NoGenerator
                          /\ is_ai_typing' = FALSE
                          /\ messages' =
                                 IF display_messages # << >>
                                 THEN Append(sent,
                                        Message("assistant",
                                          display_messages[
                                            Len(display_messages)].content))
                                 ELSE sent
                          /\ UNCHANGED << pc, stop_reason, display_messages,
                                          emitted >>
                     [] OTHER ->
                          \* line 552: except Exception
                          /\ messages' = sent
                          /\ pc' = "stopped"
                          /\ stop_reason' = "error"
                          /\ UNCHANGED << text_generator, display_messages,
                                          is_ai_typing, emitted >>
    /\ UNCHANGED << frontend, num_ctx, user_input, updated_story,
                    response_text, is_story_update, pruned_from,
                    current_total, reference >>

GuiTick == GuiTickFrom(Responses)

\* pygame.QUIT at any time, K_ESCAPE while the AI is not typing
GuiClose ==
    /\ frontend = "gui" /\ pc = "loop"
    /\ pc' = "stopped"
    /\ stop_reason' = "interrupt"
    /\ UNCHANGED << frontend, num_ctx, messages, user_input, updated_story,
                    response_text, text_generator, payload, display_messages,
                    is_story_update, is_ai_typing, pruned_from,
                    current_total, reference, response,
                    emitted >>

Next ==
    \/ TerminalStart
    \/ \E raw \in Inputs, edit \in Edits : TerminalInput(raw, edit)
    \/ TerminalPull
    \/ TerminalInterrupt
    \/ \E raw \in Inputs : TerminalInterruptEdit(raw)
    \/ GuiStart
    \/ \E text \in Inputs : GuiKeyReturn(text)
    \/ \E text \in Inputs : GuiKeyReturnBlank(text)
    \/ GuiTick
    \/ GuiClose

Spec == Init /\ [][Next]_vars

(***************************************************************************)
(* Pruning harness: truncate_messages called on any Conversation the       *)
(* program can hold when it prunes (a system Turn, then at least one user  *)
(* or assistant Turn; a user Turn is never blank) under any context window *)
(* of 0 .. MaxCtx.                                                         *)
(***************************************************************************)
AnyTexts == { EmptyText, <<"a">>, <<"a", " ", "b">> }

TurnsAfterSystem ==
    { Message("assistant", c) : c \in AnyTexts }
        \cup { Message("user", c) : c \in AnyTexts \ {EmptyText} }

Conversations ==
    UNION { { <<Message("system", c)>> \o rest :
                c \in AnyTexts, rest \in [1..k -> TurnsAfterSystem] } :
            k \in 1..(MaxLen - 1) }

InitTrunc ==
    /\ frontend \in {"terminal", "gui"}
    /\ num_ctx \in 0..MaxCtx
    /\ messages \in Conversations
    /\ pc = "call"
    /\ stop_reason = "none"
    /\ user_input = EmptyText
    /\ updated_story = EmptyText
    /\ response_text = EmptyText
    /\ text_generator = NoGenerator
    /\ payload = NoPayload
    /\ display_messages = << >>
    /\ is_story_update = FALSE
    /\ is_ai_typing = FALSE
    /\ pruned_from = << >>
    /\ current_total = 0
    /\ reference = NoReference
    /\ response = NoResponse
    /\ emitted = << >>

TruncateCall ==
    /\ pc = "call"
    /\ pruned_from' = messages
    /\ UNCHANGED << current_total, reference >>
    /\ messages' = truncate_messages(messages, num_ctx)
    /\ pc' = "return"
    /\ UNCHANGED << frontend, num_ctx, stop_reason, user_input, updated_story,
                    response_text, text_generator, payload, display_messages,
                    is_story_update, is_ai_typing, response, emitted >>

NextTrunc == TruncateCall

SpecTrunc == InitTrunc /\ [][NextTrunc]_vars

(***************************************************************************)
(* The same call, one turn of its while loop at a time.  The interpreter   *)
(* keeps running the call, so its steps are taken as long as one is        *)
(* enabled.                                                                *)
(***************************************************************************)
\* The loop condition without `and len(self.messages) > 3`.
WhileConditionNoFloor(msgs, total, n) == OverBudget(total, n)

\* line 135: current_total > self.num_ctx * 0.8 and len(self.messages) > 3
WhileCondition(msgs, total, n) ==
    OverBudget(total, n) /\ Len(msgs) > PruneFloor

\* lines 127-133: the early return, or the total and index = 1
TruncateEnter ==
    /\ pc = "call"
    /\ pruned_from' = messages
    /\ IF Len(messages) < 2
       THEN pc' = "return" /\ UNCHANGED current_total
       ELSE pc' = "while" /\ current_total' = SumWords(messages)
    /\ UNCHANGED << frontend, num_ctx, messages, stop_reason, user_input,
                    updated_story, response_text, text_generator, payload,
                    display_messages, is_story_update, is_ai_typing, response,
                    emitted, reference >>

\* lines 135-140: one turn of the loop, which pops index 1 or breaks
TruncateIterate ==
    /\ pc = "while"
    /\ WhileCondition(messages, current_total, num_ctx)
    /\ IF 1 < Len(messages) - 1
       THEN /\ messages' = pop(messages, 1)
            /\ current_total' = current_total - WordCount(messages[2].content)
            /\ UNCHANGED pc
       ELSE /\ pc' = "return"
            /\ UNCHANGED << messages, current_total >>
    /\ UNCHANGED << frontend, num_ctx, stop_reason, user_input, updated_story,
                    response_text, text_generator, payload, display_messages,
                    is_story_update, is_ai_typing, pruned_from, response,
                    emitted, reference >>

\* line 135: the loop condition is false
TruncateExit ==
    /\ pc = "while"
    /\ ~WhileCondition(messages, current_total, num_ctx)
    /\ pc' = "return"
    /\ UNCHANGED << frontend, num_ctx, messages, stop_reason, user_input,
                    updated_story, response_text, text_generator, payload,
                    display_messages, is_story_update, is_ai_typing,
                    pruned_from, current_total, reference, response, emitted >>

NextTruncLoop == TruncateEnter \/ TruncateIterate \/ TruncateExit

SpecTruncLoop ==
    InitTrunc /\ [][NextTruncLoop]_vars /\ WF_vars(NextTruncLoop)

(***************************************************************************)
(* Stream harness: the first session of either front end, run against any  *)
(* response of at most MaxLines lines and any way the transport can end.   *)
(* The response the backend is going to give is fixed in the initial       *)
(* state.                                                                  *)
(***************************************************************************)
StreamLines ==
    { JsonLine(<<"a">>, FALSE), JsonLine(<<" ", "b">>, FALSE),
      JsonLine(EmptyText, FALSE), JsonLine(<<"c">>, TRUE),
      JsonLine(EmptyText, TRUE), MalformedLine, BlankLine, BadShapeLine }

TransportEnds == {"close", "Timeout", "ConnectionError", "RequestException"}

StreamResponses ==
    { Response(ls, e) :
        ls \in UNION { [1..k -> StreamLines] : k \in 0..MaxLines },
        e \in TransportEnds }

InitStream ==
    /\ frontend \in {"terminal", "gui"}
    /\ num_ctx = DefaultNumCtx
    /\ messages = << >>
    /\ pc = "start"
    /\ stop_reason = "none"
    /\ user_input = EmptyText
    /\ updated_story = EmptyText
    /\ response_text = EmptyText
    /\ text_generator = NoGenerator
    /\ payload = NoPayload
    /\ display_messages = << >>
    /\ is_story_update = FALSE
    /\ is_ai_typing = FALSE
    /\ pruned_from = << >>
    /\ current_total = 0
    /\ reference = NoReference
    /\ response \in StreamResponses
    /\ emitted = << >>

NextStream ==
    \/ TerminalStartFrom({response})
    \/ TerminalPull
    \/ GuiStart
    \/ GuiTickFrom({response})

SpecStream == InitStream /\ [][NextStream]_vars

(***************************************************************************)
(* stream_llm_chat harness: the function called with any message, blank    *)
(* ones included, on any Conversation of at most MaxChatLen Turns, and its *)
(* generator iterated to the end with no controller around it.             *)
(***************************************************************************)
ChatMessages ==
    { EmptyText, <<" ">>, <<" ", " ">>, <<"go">>, <<" ", "go", " ">> }

ChatConversations == { c \in Conversations : Len(c) <= MaxChatLen }

InitChat ==
    /\ frontend \in {"terminal", "gui"}
    /\ num_ctx = DefaultNumCtx
    /\ messages \in ChatConversations
    /\ pc = "chat"
    /\ stop_reason = "none"
    /\ user_input \in ChatMessages
    /\ updated_story = EmptyText
    /\ response_text = EmptyText
    /\ text_generator = NoGenerator
    /\ payload = NoPayload
    /\ display_messages = << >>
    /\ is_story_update = FALSE
    /\ is_ai_typing = FALSE
    /\ pruned_from = << >>
    /\ current_total = 0
    /\ reference = NoReference
    /\ response \in Responses
    /\ emitted = << >>

\* stream_llm_chat(message) and the first next(): the body up to the request
StreamChatCall ==
    /\ pc = "chat"
    /\ pruned_from' = messages
    /\ UNCHANGED << current_total, reference >>
    /\ messages' = WithUserTurn(messages, user_input)
    /\ payload' = messages'
    /\ text_generator' =
           Generator("running", user_input, response.lines, response.end,
                     FALSE)
    /\ pc' = "chatting"
    /\ UNCHANGED << frontend, num_ctx, stop_reason, user_input, updated_story,
                    response_text, display_messages, is_story_update,
                    is_ai_typing, response, emitted >>

\* the body from the request, or from the last yield, to the next yield,
\* the end of the body or an exception
StreamChatNext ==
    /\ pc = "chatting"
    /\ LET r == Resume(text_generator)
       IN  CASE r.out = "yield" ->
                  /\ emitted' = Append(emitted, r.token)
                  /\ text_generator' = r.gen
                  /\ UNCHANGED pc
             [] r.out = "stop" ->
                  /\ text_generator' = NoGenerator
                  /\ pc' = "exhausted"
                  /\ UNCHANGED emitted
             [] OTHER ->
                  /\ text_generator' = NoGenerator
                  /\ pc' = "raised"
                  /\ UNCHANGED emitted
    /\ UNCHANGED << frontend, num_ctx, messages, stop_reason, user_input,
                    updated_story, response_text, payload, display_messages,
                    is_story_update, is_ai_typing, pruned_from,
                    current_total, reference, response >>

NextChat == StreamChatCall \/ StreamChatNext

SpecChat == InitChat /\ [][NextChat]_vars

(***************************************************************************)
(* Equivalence harness: the terminal controller runs a script (the first   *)
(* session, then one line at the prompt with its story update text, the    *)
(* backend answering each request as the script says), its outcome is      *)
(* kept, and the GUI controller runs the same script from its own initial  *)
(* state.                                                                  *)
(***************************************************************************)
\* the lines of a script: ordinary text with and without surrounding
\* blanks, undo, debug and help
ScriptInputs ==
    (Inputs \ { QUIT, <<" ">> }) \cup { <<"look">> }

InitEquiv ==
    /\ frontend = "terminal"
    /\ num_ctx \in NumCtxValues
    /\ messages = << >>
    /\ pc = "start"
    /\ stop_reason = "none"
    /\ user_input = EmptyText
    /\ updated_story = EmptyText
    /\ response_text = EmptyText
    /\ text_generator = NoGenerator
    /\ payload = NoPayload
    /\ display_messages = << >>
    /\ is_story_update = FALSE
    /\ is_ai_typing = FALSE
    /\ pruned_from = << >>
    /\ current_total = 0
    /\ \E raw \in ScriptInputs, edit \in Edits, first \in Responses,
          second \in Responses :
            reference = Reference(raw, edit, first, second, FALSE, << >>,
                                  << >>)
    /\ response = NoResponse
    /\ emitted = << >>

\* the answer of the backend to the request about to be sent
Scripted ==
    IF user_input = EmptyText THEN reference.first ELSE reference.second

\* the script has been played to its end
ScriptPlayed ==
    \/ pc = "stopped"
    \/ /\ pc = "loop" /\ ~is_ai_typing
       /\ user_input # EmptyText
       /\ ~(is_story_update /\ user_input = reference.raw)

\* the terminal reads the line of the script, and the story update text
\* when it asks for one
ScriptTerminalInput ==
    /\ user_input = EmptyText
    /\ TerminalInput(reference.raw,
                     IF AsksEdit(messages, strip(reference.raw))
                     THEN reference.edit ELSE <<" ">>)
    /\ response' = reference.second

\* the GUI gets the line of the script when it accepts one
ScriptGuiInput ==
    /\ user_input = EmptyText
    /\ payload # NoPayload
    /\ GuiKeyReturn(reference.raw)

\* the GUI gets the story update text as the next line
ScriptGuiEdit ==
    /\ is_story_update /\ user_input = reference.raw
    /\ \/ GuiKeyReturn(reference.edit)
       \/ GuiKeyReturnBlank(reference.edit)

\* the terminal's outcome is kept and the GUI starts from its initial state
SwitchFrontend ==
    /\ frontend = "terminal" /\ ScriptPlayed
    /\ frontend' = "gui"
    /\ reference' = [reference EXCEPT !.terminal_ran = TRUE,
                                      !.messages = messages,
                                      !.payload = payload]
    /\ messages' = << >>
    /\ pc' = "start"
    /\ stop_reason' = "none"
    /\ user_input' = EmptyText
    /\ updated_story' = EmptyText
    /\ response_text' = EmptyText
    /\ text_generator' = NoGenerator
    /\ payload' = NoPayload
    /\ display_messages' = << >>
    /\ is_story_update' = FALSE
    /\ is_ai_typing' = FALSE
    /\ response' = NoResponse
    /\ emitted' = << >>
    /\ UNCHANGED << num_ctx, pruned_from, current_total >>

NextEquiv ==
    \/ TerminalStartFrom({reference.first})
    \/ TerminalPull
    \/ ScriptTerminalInput
    \/ SwitchFrontend
    \/ GuiStart
    \/ GuiTickFrom({Scripted})
    \/ ScriptGuiInput
    \/ ScriptGuiEdit

SpecEquiv == InitEquiv /\ [][NextEquiv]_vars

(***************************************************************************)
(* Properties.                                                             *)
(***************************************************************************)
Roles(msgs) == [i \in 1..Len(msgs) |-> msgs[i].role]

LastRole(msgs) == IF msgs = << >> THEN "none" ELSE msgs[Len(msgs)].role

Alternates(msgs) == \A i \in 1..(Len(msgs) - 1) : msgs[i].role # msgs[i + 1].role

IsCommand(raw, c) == lower(strip(raw)) = c

\* the controller takes the line raw (terminal: with edit read at the
\* story update prompt, if it asks for one)
Enters(raw) ==
    \/ \E edit \in Edits : TerminalInput(raw, edit)
    \/ GuiKeyReturn(raw)

\* no session is started by the step
NoSessionStarted ==
    /\ payload' = payload
    /\ text_generator' = text_generator
    /\ ~AwaitingModel'

\* C1 (undo guard, P5): in both front ends `undo` entered while Idle with a
\* last Turn of role user or system leaves the Conversation as it was,
\* starts no model request and leaves the controller Idle.
C1_UndoGuard ==
    [][ \A raw \in Inputs :
          ( /\ Idle
            /\ LastRole(messages) \in {"user", "system"}
            /\ IsCommand(raw, UNDO)
            /\ Enters(raw) )
          => /\ messages' = messages
             /\ NoSessionStarted
             /\ Idle' ]_vars

\* C2 (undo round-trip, P4): from Idle with [system, user, assistant],
\* `undo` and then a non-blank replacement R leave
\* [system, user, assistant(R)] and append no further Turn.  The terminal
\* reads R inside the step that takes `undo`; the GUI takes R as the next
\* line, in story update mode.
C2_UndoRoundTrip ==
    [][ /\ \A raw \in Inputs, edit \in Edits :
             ( /\ frontend = "terminal" /\ Idle
               /\ Roles(messages) = <<"system", "user", "assistant">>
               /\ IsCommand(raw, UNDO) /\ Truthy(strip(edit))
               /\ TerminalInput(raw, edit) )
             => messages' = [messages EXCEPT ![3].content = edit]
        /\ \A raw \in Inputs :
             ( /\ frontend = "gui" /\ Idle
               /\ Roles(messages) = <<"system", "user", "assistant">>
               /\ IsCommand(raw, UNDO)
               /\ GuiKeyReturn(raw) )
             => messages' = DropLast(messages) /\ StoryEditMode'
        /\ \A text \in Inputs :
             ( /\ StoryEditMode
               /\ Roles(messages) = <<"system", "user">>
               /\ GuiKeyReturn(text) )
             => /\ messages' = Append(messages, Message("assistant", text))
                /\ Idle' ]_vars

\* C3: in both front ends `debug` entered while Idle changes no state: the
\* Conversation is identical, no user Turn is appended and no session is
\* started.
C3_DebugNoChange ==
    [][ \A raw \in Inputs :
          (Idle /\ IsCommand(raw, DEBUG) /\ Enters(raw))
          => /\ messages' = messages
             /\ NoSessionStarted
             /\ Idle' ]_vars

\* C4: in both front ends `help` entered while Idle changes no state: the
\* Conversation is identical, no user Turn "help" is appended and no session
\* is started.
C4_HelpNoChange ==
    [][ \A raw \in Inputs :
          (Idle /\ IsCommand(raw, HELP) /\ Enters(raw))
          => /\ messages' = messages
             /\ NoSessionStarted
             /\ Idle' ]_vars

\* C5 as stated (budget convergence, P2): after truncate_messages the total
\* word count is within the budget or the Conversation has exactly 3 Turns.
C5_BudgetOrExactlyThree ==
    pc = "return" =>
        \/ ~OverBudget(SumWords(messages), num_ctx)
        \/ Len(messages) = PruneFloor

\* C5 as amended: after truncate_messages the total word count is within
\* the budget or the Conversation has at most 3 Turns, and exactly 3 when
\* it had at least 3 Turns before the call.
C5_BudgetOrFloor ==
    pc = "return" =>
        \/ ~OverBudget(SumWords(messages), num_ctx)
        \/ /\ Len(messages) <= PruneFloor
           /\ Len(pruned_from) >= PruneFloor => Len(messages) = PruneFloor

\* a call that pruned down to the floor and is still over the budget
C5_Witness ==
    /\ pc = "return"
    /\ Len(pruned_from) > PruneFloor
    /\ Len(messages) = PruneFloor
    /\ OverBudget(SumWords(messages), num_ctx)

\* C6: once run() has appended the system Turn, every reachable state of
\* the Conversation holds exactly one system Turn, at index 0.
C6_OneSystemTurnFirst ==
    pc # "start" =>
        /\ Len(messages) >= 1
        /\ \A i \in 1..Len(messages) : messages[i].role = "system" <=> i = 1

\* the Budgeter has evicted the first user Turn: an assistant Turn follows
\* the system Turn
C6_Witness ==
    /\ pc = "loop"
    /\ Len(messages) > PruneFloor
    /\ messages[2].role = "assistant"

\* C7 (system-turn permanence, P3): truncate_messages leaves the Turn at
\* index 0 and the final Turn in place, with the role and content they had.
C7_FirstAndLastKept ==
    pc = "return" =>
        /\ Len(messages) >= 1
        /\ messages[1] = pruned_from[1]
        /\ messages[Len(messages)] = pruned_from[Len(pruned_from)]

\* a call that removed at least two Turns
C7_Witness ==
    /\ pc = "return"
    /\ Len(messages) + 2 <= Len(pruned_from)

\* C8 (role alternation): whenever the controller is Idle and the line it
\* last took was not `undo`, no two consecutive Turns share a role.
C8_RolesAlternate ==
    (Idle /\ ~IsCommand(user_input, UNDO)) => Alternates(messages)

\* C9: the messages of every request sent, the new user Turn counted, are
\* within the budget, or the Conversation the user Turn was appended to was
\* at the floor of 3 Turns (or shorter).
C9_RequestWithinBudget ==
    payload # NoPayload =>
        \/ ~OverBudget(SumWords(payload), num_ctx)
        \/ Len(payload) <= PruneFloor + 1

\* the pending response buffer of the session
Buffer ==
    IF frontend = "terminal" THEN response_text
    ELSE IF display_messages = << >> THEN EmptyText
    ELSE display_messages[Len(display_messages)].content

\* the Conversation the session's request carries (the GUI appends the user
\* Turn when the generator takes its first step)
Requested ==
    IF text_generator.st = "created"
    THEN WithUserTurn(messages, text_generator.message)
    ELSE messages

\* the lines that are neither blank nor a control command, as typed and as
\* the terminal strips them
OrdinaryLines ==
    { raw \in Inputs \cup { strip(i) : i \in Inputs } :
        /\ Truthy(strip(raw))
        /\ ~(\E c \in {QUIT, UNDO, DEBUG, HELP} : IsCommand(raw, c)) }

\* C10 (ordinary-input step): an ordinary line taken while Idle prunes the
\* Conversation and starts a session, and the step that ends the session
\* appends exactly one assistant Turn holding the buffer and returns to
\* Idle, whatever the stream yielded.
C10_OrdinaryInputStep ==
    [][ /\ \A raw \in Inputs :
             (Idle /\ raw \in OrdinaryLines /\ Enters(raw))
             => /\ AwaitingModel'
                /\ Requested' =
                       Append(truncate_messages(messages, num_ctx),
                              [role |-> "user",
                               content |-> Requested'[Len(Requested')].content])
        /\ (AwaitingModel /\ text_generator.message \in OrdinaryLines /\ Idle')
             => messages' = Append(Requested, Message("assistant", Buffer)) ]_vars

(***************************************************************************)
(* Streams, as the properties of a session speak of them.                  *)
(***************************************************************************)
RECURSIVE Concat(_)
Concat(texts) ==
    IF texts = << >> THEN EmptyText ELSE Head(texts) \o Concat(Tail(texts))

Contents(lines) == [i \in 1..Len(lines) |-> lines[i].content]

NonEmpty(c) == c # EmptyText

\* the fragments the lines carry, in order
Fragments(lines) == SelectSeq(Contents(lines), NonEmpty)

IsPrefix(p, q) == Len(p) <= Len(q) /\ p = SubSeq(q, 1, Len(p))

Kinds(lines) == { lines[i].kind : i \in 1..Len(lines) }

\* no line before the last one says done
DoneNotBeforeLast(lines) == \A i \in 1..(Len(lines) - 1) : ~lines[i].done

\* stream harness: the session has ended and the controller has gone on
SessionEnded == pc = "loop" /\ text_generator = NoGenerator

\* stream harness: the Conversation the request of the session carried
FirstRequest ==
    <<Message("system", SystemPrompt), Message("user", FirstMessage)>>

\* C11 (stream concatenation, P6): for a stream of valid lines carrying
\* fragments f1..fn whose last line, and no other, says done, the fragments
\* are emitted in order and the assistant Turn committed at the end of the
\* session holds f1 ++ ... ++ fn, in both front ends; a Turn is committed
\* whenever that text is not empty.
C11_StreamConcatenation ==
    ( /\ SessionEnded
      /\ response.lines # << >>
      /\ Kinds(response.lines) = {"json"}
      /\ DoneNotBeforeLast(response.lines)
      /\ response.lines[Len(response.lines)].done )
    => LET whole == Concat(Contents(response.lines))
       IN  /\ emitted = Fragments(response.lines)
           /\ Truthy(whole) =>
                  messages = Append(FirstRequest, Message("assistant", whole))
           /\ messages \in { FirstRequest,
                              Append(FirstRequest,
                                     Message("assistant", whole)) }

\* the GUI has pulled three fragments, one a tick, and committed their
\* concatenation
C11_Witness ==
    /\ SessionEnded
    /\ frontend = "gui"
    /\ response.lines = << JsonLine(<<"a">>, FALSE),
                           JsonLine(<<" ", "b">>, FALSE),
                           JsonLine(<<"c">>, TRUE) >>
    /\ Len(emitted) = 3
    /\ messages[Len(messages)] =
           Message("assistant", <<"a", " ", "b", "c">>)

\* C12 (malformed-line tolerance, P7): for a stream whose lines are valid
\* fragment lines with syntactically invalid lines among them at any
\* positions, the generator yields exactly the fragments of the valid lines,
\* in order, the session does not end in an error, and the Turn committed
\* holds their concatenation.
C12_MalformedTolerance ==
    ( /\ "malformed" \in Kinds(response.lines)
      /\ Kinds(response.lines) \subseteq {"json", "malformed"}
      /\ DoneNotBeforeLast(response.lines)
      /\ response.end = "close" )
    => /\ pc # "stopped"
       /\ IsPrefix(emitted, Fragments(response.lines))
       /\ SessionEnded =>
              /\ emitted = Fragments(response.lines)
              /\ emitted # << >> =>
                     messages = Append(FirstRequest,
                                       Message("assistant", Concat(emitted)))

\* a session over [valid, invalid, valid] has ended with both fragments
C12_Witness ==
    /\ SessionEnded
    /\ response.lines = << JsonLine(<<"a">>, FALSE), MalformedLine,
                           JsonLine(<<" ", "b">>, FALSE) >>
    /\ emitted = << <<"a">>, <<" ", "b">> >>
    /\ messages[Len(messages)] = Message("assistant", <<"a", " ", "b">>)

\* C13: when the transport fails (Timeout, ConnectionError or another
\* RequestException), at whatever point of the session, the fragment
\* sequence of the session is the fallback fragment alone and the assistant
\* Turn committed for it holds the fallback text alone.
C13_FallbackOnly ==
    /\ text_generator.st = "fallback" =>
           emitted = << Fallback(response.end) >>
    /\ ( /\ SessionEnded
         /\ response.end # "close"
         /\ emitted # << >>
         /\ emitted[Len(emitted)] = Fallback(response.end) )
       => /\ emitted = << Fallback(response.end) >>
          /\ messages = Append(FirstRequest,
                               Message("assistant", Fallback(response.end)))

\* the conversation loop is running: the GUI runs its first session inside
\* the event loop, the terminal enters its loop after the first session, so
\* that every later request carries more Turns than the first one
LoopRunning == frontend = "gui" \/ Len(payload) > Len(FirstRequest)

\* C14: once the conversation loop is running the controller stops only
\* through `quit` or an interrupt (Ctrl-C or EOF, window close or Escape);
\* no error of the transport, of decoding, of a stream line or of a command
\* ends the loop.
C14_StopsOnlyByQuitOrInterrupt ==
    (pc = "stopped" /\ LoopRunning) => stop_reason \in {"quit", "interrupt"}

\* C15: a line that parses as JSON but has another shape (a number, a
\* string, an array, message: null) is skipped like a malformed line: the
\* session does not end in an error, and the fragments of the other lines,
\* the later ones included, are emitted in order and committed.
C15_BadShapeSkipped ==
    ( /\ "badshape" \in Kinds(response.lines)
      /\ Kinds(response.lines) \subseteq {"json", "badshape"}
      /\ DoneNotBeforeLast(response.lines)
      /\ response.end = "close" )
    => /\ stop_reason # "error"
       /\ IsPrefix(emitted, Fragments(response.lines))
       /\ SessionEnded =>
              /\ emitted = Fragments(response.lines)
              /\ emitted # << >> =>
                     messages = Append(FirstRequest,
                                       Message("assistant", Concat(emitted)))

\* the message has a character that is not whitespace
HasNonWhitespace(m) == \E i \in 1..Len(m) : m[i] # " "

\* C16: stream_llm_chat(message) appends exactly one user Turn holding
\* message before the request when message has a non-whitespace character,
\* and appends nothing when message is empty or whitespace only; the request
\* carries the Conversation as it then is, and the generator appends no
\* other Turn while it is iterated to its end.
C16_UserTurnIffNonBlank ==
    pc \in {"chatting", "exhausted", "raised"} =>
        /\ messages =
               IF HasNonWhitespace(user_input)
               THEN Append(pruned_from, Message("user", user_input))
               ELSE pruned_from
        /\ payload = messages

\* a call with a whitespace-only message has sent the history as it was and
\* its generator has been iterated to the end
C16_Witness ==
    /\ pc = "exhausted"
    /\ user_input = <<" ">>
    /\ emitted # << >>
    /\ payload = pruned_from
    /\ messages = pruned_from

\* C17 (initialization ordering): in both front ends the Conversation holds
\* the system Turn when the generator of the first session is created, the
\* first request carries exactly [system, user], and no line of the player
\* is taken before the first request was sent and its session has ended.
C17_InitializationOrder ==
    [][ /\ (text_generator = NoGenerator /\ text_generator' # NoGenerator
                /\ payload = NoPayload)
            => /\ Len(messages') >= 1
               /\ messages'[1] = Message("system", SystemPrompt)
        /\ (payload = NoPayload /\ payload' # NoPayload)
            => payload' = FirstRequest
        /\ \A raw \in Inputs :
              Enters(raw) => (payload # NoPayload /\ ~AwaitingModel) ]_vars

\* the first session of the GUI is in flight: the request has carried
\* [system, user] and a fragment has arrived, with no line taken yet
C17_Witness ==
    /\ frontend = "gui"
    /\ AwaitingModel
    /\ user_input = EmptyText
    /\ payload = FirstRequest
    /\ messages = FirstRequest
    /\ emitted # << >>

\* C18: `quit` entered while Idle stops the controller, leaves the
\* Conversation as it was and starts no session; once stopped the controller
\* takes no further step.
C18_QuitIsTerminal ==
    [][ /\ \A raw \in Inputs :
              (Idle /\ lower(strip(raw)) = <<"quit">> /\ Enters(raw))
              => /\ pc' = "stopped"
                 /\ messages' = messages
                 /\ NoSessionStarted
        /\ pc # "stopped" ]_vars

\* `quit` was entered while Idle, after a reply
C18_Witness ==
    /\ pc = "stopped"
    /\ stop_reason = "quit"
    /\ lower(strip(user_input)) = <<"quit">>
    /\ ~is_story_update
    /\ LastRole(messages) = "assistant"
    /\ text_generator = NoGenerator

\* C19: a generator is created only when none is live (the previous
\* session has been exhausted), and while a session of the GUI is in flight
\* no key press is handed to process_input and only the pulling of
\* fragments changes the Conversation.
C19_OneSessionAtATime ==
    [][ /\ (text_generator' # text_generator
                /\ text_generator'.st \in {"created", "running"})
            => text_generator = NoGenerator
        /\ (frontend = "gui" /\ AwaitingModel)
            => /\ user_input' = user_input
               /\ ~(\E text \in Inputs : GuiKeyReturn(text))
               /\ messages' # messages => GuiTick ]_vars

\* a later session of the GUI is in flight, suspended at a yield
C19_Witness ==
    /\ frontend = "gui"
    /\ AwaitingModel
    /\ Len(payload) > Len(FirstRequest)
    /\ text_generator.st = "suspended"

\* C20: in story edit mode any non-blank text, a control keyword included,
\* becomes the replacement narrative: one assistant Turn holding it is
\* appended, no session is started and the controller is Idle again.  The
\* GUI takes the text as its next line; the terminal reads it at the story
\* update prompt, inside the step that takes `undo`.
C20_StoryEditTakesAnyText ==
    [][ /\ \A text \in Inputs :
              (StoryEditMode /\ Truthy(strip(text)) /\ GuiKeyReturn(text))
              => /\ messages' = Append(messages, Message("assistant", text))
                 /\ NoSessionStarted
                 /\ Idle'
        /\ \A raw \in Inputs, edit \in Edits :
              ( /\ frontend = "terminal"
                /\ AsksEdit(messages, strip(raw))
                /\ Truthy(strip(edit))
                /\ TerminalInput(raw, edit) )
              => /\ messages' =
                        Append(DropLast(messages), Message("assistant", edit))
                 /\ NoSessionStarted
                 /\ Idle' ]_vars

\* C21: in story edit mode empty or whitespace-only text discards the edit:
\* nothing is appended, the Conversation is the one the undo left (the
\* original without its last assistant Turn), no session is started and the
\* controller is Idle again.  The GUI takes the text as its next line; the
\* terminal reads it at the story update prompt, inside the step that takes
\* `undo`.
C21_EmptyEditDiscards ==
    [][ /\ \A text \in Inputs :
              (StoryEditMode /\ ~Truthy(strip(text))
                 /\ (GuiKeyReturn(text) \/ GuiKeyReturnBlank(text)))
              => /\ messages' = messages
                 /\ NoSessionStarted
                 /\ Idle'
        /\ \A raw \in Inputs, edit \in Edits :
              ( /\ frontend = "terminal"
                /\ AsksEdit(messages, strip(raw))
                /\ ~Truthy(strip(edit))
                /\ TerminalInput(raw, edit) )
              => /\ messages' = DropLast(messages)
                 /\ NoSessionStarted
                 /\ Idle' ]_vars

\* the step leaves fewer Turns than it found
Shortens == Len(messages') < Len(messages)

\* undo finds a last Turn it pops
Poppable(msgs) == Len(msgs) > 1 /\ LastRole(msgs) = "assistant"

\* the step takes the line raw and its pruning run removes a Turn
PruningRun(raw) ==
    \/ \E edit \in Edits :
         /\ TerminalInput(raw, edit)
         /\ pc' = "streaming"
         /\ LET handled == AfterCommandTerminal(messages, strip(raw), edit)
            IN  truncate_messages(handled, num_ctx) # handled
    \/ /\ GuiKeyReturn(raw)
       /\ text_generator'.st = "created"
       /\ truncate_messages(messages, num_ctx) # messages

\* the step takes `undo` and pops the last Turn
SuccessfulUndo(raw) ==
    /\ IsCommand(raw, UNDO)
    /\ Poppable(messages)
    /\ ~is_story_update
    /\ Enters(raw) \/ TerminalInterruptEdit(raw)

\* C22 (append-only, P1): the Conversation gets shorter only in a step that
\* is a pruning run of the Budgeter or a successful `undo`; a step that
\* takes `debug`, `help` or an `undo` that finds nothing to pop, and a step
\* of a session (a fragment, a skipped line, a fallback, the commit), never
\* leaves fewer Turns than it found.
C22_AppendOnly ==
    [][ /\ Shortens =>
              \E raw \in Inputs : PruningRun(raw) \/ SuccessfulUndo(raw)
        /\ \A raw \in Inputs :
              ( /\ Enters(raw)
                /\ \/ IsCommand(raw, DEBUG)
                   \/ IsCommand(raw, HELP)
                   \/ IsCommand(raw, UNDO) /\ ~Poppable(messages) )
              => ~Shortens
        /\ AwaitingModel => ~Shortens ]_vars

\* the line, trimmed and lower-cased, is one of the four keywords
IsKeyword(raw) ==
    lower(strip(raw)) \in { <<"quit">>, <<"undo">>, <<"debug">>, <<"help">> }

\* the step starts a session whose message is the line
SentToModel(raw) ==
    /\ AwaitingModel'
    /\ text_generator' # text_generator
    /\ text_generator'.message \in {raw, strip(raw)}

\* C23 (command recognition): in both front ends a non-blank line taken
\* while Idle is handled as a control command, and not sent to the model,
\* exactly when trimmed and lower-cased it is `quit`, `undo`, `debug` or
\* `help`; every other line is sent to the model as gameplay text.
C23_CommandRecognition ==
    [][ \A raw \in Inputs :
          (Idle /\ Truthy(strip(raw)) /\ Enters(raw))
          => (IsKeyword(raw) <=> ~SentToModel(raw)) ]_vars

\* the Conversation with its k Turns after the system Turn removed
WithoutOldest(msgs, k) == <<msgs[1]>> \o SubSeq(msgs, k + 2, Len(msgs))

\* the pruning has nothing more to do: within the budget, or at the floor
PruningStops(msgs, n) ==
    ~OverBudget(SumWords(msgs), n) \/ Len(msgs) <= PruneFloor

\* C24 (FIFO eviction result): truncate_messages returns the system Turn
\* followed by a suffix of the Conversation, the k oldest Turns after the
\* system Turn removed, where k is the smallest number of removals after
\* which the total word count is within the budget or 3 Turns remain (k = 0
\* when the Conversation is within the budget or has at most 3 Turns); the
\* Turns that survive keep their order and content.
C24_FifoEviction ==
    pc = "return" =>
        LET k == Len(pruned_from) - Len(messages)
        IN  /\ k >= 0
            /\ messages = WithoutOldest(pruned_from, k)
            /\ PruningStops(messages, num_ctx)
            /\ \A j \in 0..(k - 1) :
                  ~PruningStops(WithoutOldest(pruned_from, j), num_ctx)

\* a call that evicted a Turn and stopped above the floor, within the budget
C24_Witness ==
    /\ pc = "return"
    /\ Len(messages) < Len(pruned_from)
    /\ Len(messages) > PruneFloor
    /\ ~OverBudget(SumWords(messages), num_ctx)

\* the Turns the call has removed so far
Removals == Len(pruned_from) - Len(messages)

\* len(Conversation) - 3, or none for a Conversation of 3 Turns or fewer
MostRemovals ==
    IF Len(pruned_from) > PruneFloor THEN Len(pruned_from) - PruneFloor ELSE 0

\* C25: truncate_messages returns for every Conversation and every budget,
\* a budget of 0 and Turns of zero words included, after at most
\* len(Conversation) - 3 removals; it runs into no error on the way (the
\* Turn it pops exists) and returns what the pruning is defined to return.
C25_TruncateTerminates ==
    /\ <>(pc = "return")
    /\ [](pc # "call" => Removals \in 0..MostRemovals)
    /\ [](pc = "while" => Len(messages) >= 2)
    /\ [](pc = "return" =>
              messages = truncate_messages(pruned_from, num_ctx))

\* a call with a budget of 0 that evicted a Turn of zero words and went on
\* to the floor
C25_Witness ==
    /\ pc = "return"
    /\ num_ctx = 0
    /\ pruned_from[2].content = EmptyText
    /\ Removals = MostRemovals
    /\ Removals >= 2
    /\ OverBudget(SumWords(messages), num_ctx)

\* the place of the first valid line that says done, 0 when there is none
FirstDone(lines) ==
    LET dones == { i \in 1..Len(lines) :
                     lines[i].kind = "json" /\ lines[i].done }
    IN  IF dones = {} THEN 0
        ELSE CHOOSE i \in dones : \A j \in dones : i <= j

\* the lines up to and including the first one that says done
UpToDone(lines) ==
    IF FirstDone(lines) = 0 THEN lines
    ELSE SubSeq(lines, 1, FirstDone(lines))

\* C26 (stream termination at done): for a stream whose lines up to the
\* first done line are valid, syntactically invalid or blank, and which
\* either has a done line or ends by the connection closing, the fragments
\* emitted are exactly the non-empty contents of the valid lines up to and
\* including the first done line, in order: the done line's own fragment is
\* emitted, nothing of a later line is, and without a done line the
\* sequence ends with the last line.
C26_EndsAtDone ==
    ( /\ Kinds(UpToDone(response.lines))
             \subseteq {"json", "malformed", "blank"}
      /\ FirstDone(response.lines) # 0 \/ response.end = "close" )
    => /\ stop_reason # "error"
       /\ IsPrefix(emitted, Fragments(UpToDone(response.lines)))
       /\ SessionEnded => emitted = Fragments(UpToDone(response.lines))

\* a session over [a, c with done, b] has ended with a and c emitted
C26_Witness ==
    /\ SessionEnded
    /\ response.lines = << JsonLine(<<"a">>, FALSE), JsonLine(<<"c">>, TRUE),
                           JsonLine(<<" ", "b">>, FALSE) >>
    /\ emitted = << <<"a">>, <<"c">> >>

\* the next() calls a live generator can still answer with a fragment, at
\* most: none after a fallback or a done line, else one a line left and one
\* for a fallback
Remaining(g) ==
    IF g.st = "fallback" \/ g.brk THEN 0 ELSE Len(g.lines) + 1

\* C27 (liveness of a session): while the controller awaits the model,
\* every pull of the terminal and every tick of the GUI either returns the
\* controller to Idle with the session closed (no generator, is_ai_typing
\* false), or leaves it awaiting with strictly less of the stream to read;
\* the stream being finite, the session ends and input is accepted again.
C27_SessionReturnsToIdle ==
    [][ (AwaitingModel /\ (TerminalPull \/ GuiTick))
        => \/ /\ Idle'
              /\ text_generator' = NoGenerator
              /\ ~is_ai_typing'
           \/ /\ AwaitingModel'
              /\ text_generator.st # "created" =>
                     Remaining(text_generator') < Remaining(text_generator)
       ]_vars

\* C28: given the same inputs and the same backend answers, the terminal and
\* the GUI controller end with the same Conversation and have sent the same
\* requests: when the GUI has played the script the terminal played, its
\* messages and its last request payload are the terminal's.
C28_FrontEndsAgree ==
    (frontend = "gui" /\ reference.terminal_ran /\ ScriptPlayed)
        => /\ messages = reference.messages
           /\ payload = reference.payload

\* a step of the GUI that starts a Streaming Session
GuiSessionStarts ==
    /\ frontend = "gui"
    /\ text_generator.st = "none"
    /\ text_generator'.st # "none"

\* C29: in every reachable state of the GUI between two steps of its event
\* loop, text_generator is set exactly when is_ai_typing is true and
\* is_story_update and is_ai_typing are not both true; and no step starts a
\* Streaming Session from a state where is_story_update is true.
C29_GuiFlagsConsistent ==
    /\ [](frontend = "gui" =>
            /\ (text_generator # NoGenerator) <=> is_ai_typing
            /\ ~(is_story_update /\ is_ai_typing))
    /\ [][GuiSessionStarts => ~is_story_update /\ ~is_story_update']_vars

\* the GUI has started a session right after a story update: the replacement
\* text is the last Turn, the flag is cleared and the generator is set
C29_Witness ==
    /\ frontend = "gui" /\ pc = "loop"
    /\ is_ai_typing /\ text_generator.st = "created"
    /\ ~is_story_update
    /\ Len(messages) > 2
    /\ messages[Len(messages)] = Message("assistant", <<" ", "go", " ", "north">>)

====
